---- MODULE Spec2Model ----
(***************************************************************************)
(* Model of tutorials/03_file_manager/server.py: the six file tools        *)
(* (list_files, read_file, write_file, search_files, get_file_info,        *)
(* create_directory) and the path check _safe_path, over a POSIX file      *)
(* system.  Symbolic links occur in the file systems of one specification  *)
(* only (SpecLinks); without them Path.resolve() is Resolve below.         *)
(*                                                                         *)
(* Strings are sequences of one-character strings; "LF", "CR" and "SP"     *)
(* stand for line feed, carriage return and space.  A path is a sequence   *)
(* of segments (each a string) below "/"; <<>> is "/" itself.              *)
(***************************************************************************)
EXTENDS Integers, Sequences, FiniteSets, TLC

VARIABLES WORKSPACE, fs, call, ret, nmut, last_write, threads, finished

vars == <<WORKSPACE, fs, call, ret, nmut, last_write, threads, finished>>

(***************************************************************************)
(* Bounds                                                                  *)
(***************************************************************************)
\* longest argument string enumerated for _safe_path on its own
MaxStrLen == 5
\* number of write_file / create_directory calls that get past the guards
MaxMut == 2

(***************************************************************************)
(* Strings                                                                 *)
(***************************************************************************)
DotDot == <<".", ".">>

RECURSIVE SplitFrom(_, _, _, _)
SplitFrom(s, sep, i, cur) ==
    IF i > Len(s) THEN <<cur>>
    ELSE IF s[i] = sep THEN <<cur>> \o SplitFrom(s, sep, i + 1, <<>>)
    ELSE SplitFrom(s, sep, i + 1, Append(cur, s[i]))

\* str.split(sep)
Split(s, sep) == SplitFrom(s, sep, 1, <<>>)

\* str.startswith
StartsWith(s, t) == Len(t) =< Len(s) /\ SubSeq(s, 1, Len(t)) = t

\* code points, as far as the order of the characters used here goes
Ord(c) ==
    CASE c = "LF" -> 10 [] c = "CR" -> 13 [] c = "SP" -> 32
      [] c = "*" -> 42 [] c = "." -> 46 [] c = "/" -> 47 [] c = "?" -> 63
      [] c = "G" -> 71 [] c = "H" -> 72 [] c = "P" -> 80
      [] c = "a" -> 97 [] c = "e" -> 101 [] c = "g" -> 103 [] c = "h" -> 104
      [] c = "i" -> 105
      [] c = "l" -> 108 [] c = "m" -> 109 [] c = "n" -> 110 [] c = "o" -> 111 [] c = "p" -> 112
      [] c = "s" -> 115 [] c = "t" -> 116 [] c = "w" -> 119 [] c = "x" -> 120
      [] c = "E'" -> 233

\* str.__lt__
RECURSIVE StrLess(_, _)
StrLess(s, t) ==
    IF t = <<>> THEN FALSE
    ELSE IF s = <<>> THEN TRUE
    ELSE IF s[1] # t[1] THEN Ord(s[1]) < Ord(t[1])
    ELSE StrLess(Tail(s), Tail(t))

\* str.lower
LowerChar(c) ==
    CASE c = "G" -> "g" [] c = "H" -> "h" [] c = "P" -> "p" [] OTHER -> c
Lower(s) == [i \in 1..Len(s) |-> LowerChar(s[i])]

\* the in operator on strings
Contains(s, t) == \E i \in 0..(Len(s) - Len(t)) : SubSeq(s, i + 1, i + Len(t)) = t

(***************************************************************************)
(* pathlib: pure paths                                                     *)
(***************************************************************************)
\* the segments of a path string: empty segments and "." are dropped
RECURSIVE DropDots(_)
DropDots(parts) ==
    IF parts = <<>> THEN <<>>
    ELSE IF Head(parts) = <<>> \/ Head(parts) = <<".">> THEN DropDots(Tail(parts))
    ELSE <<Head(parts)>> \o DropDots(Tail(parts))

Parts(s) == DropDots(Split(s, "/"))

IsAbs(s) == Len(s) > 0 /\ s[1] = "/"

\* WORKSPACE / relative_path: an absolute right operand replaces the left one
Join(base, s) == IF IsAbs(s) THEN Parts(s) ELSE base \o Parts(s)

\* Path.resolve() without symbolic links: ".." removes the segment before it
RECURSIVE ResolveFrom(_, _)
ResolveFrom(done, rest) ==
    IF rest = <<>> THEN done
    ELSE IF Head(rest) = DotDot
         THEN ResolveFrom(IF done = <<>> THEN <<>> ELSE SubSeq(done, 1, Len(done) - 1),
                          Tail(rest))
         ELSE ResolveFrom(Append(done, Head(rest)), Tail(rest))

Resolve(p) == ResolveFrom(<<>>, p)

\* Path.resolve() on file system f: a symbolic link on the way is replaced by
\* its target, an absolute path; what does not exist is kept as it is written
RECURSIVE RealFrom(_, _, _)
RealFrom(f, done, rest) ==
    IF rest = <<>> THEN done
    ELSE IF Head(rest) = DotDot
    THEN RealFrom(f, IF done = <<>> THEN <<>> ELSE SubSeq(done, 1, Len(done) - 1), Tail(rest))
    ELSE LET q == Append(done, Head(rest))
         IN  IF q \in DOMAIN f /\ f[q].kind = "link"
             THEN RealFrom(f, <<>>, f[q].data \o Tail(rest))
             ELSE RealFrom(f, q, Tail(rest))

Realpath(f, p) == RealFrom(f, <<>>, p)

\* str(path)
RECURSIVE Str(_)
Str(p) ==
    IF p = <<>> THEN <<"/">>
    ELSE IF Len(p) = 1 THEN <<"/">> \o p[1]
    ELSE Str(SubSeq(p, 1, Len(p) - 1)) \o <<"/">> \o p[Len(p)]

Parent(p) == IF p = <<>> THEN <<>> ELSE SubSeq(p, 1, Len(p) - 1)

\* p is q or lies below q, segment by segment
IsUnder(p, q) == Len(q) =< Len(p) /\ SubSeq(p, 1, Len(q)) = q

(***************************************************************************)
(* _safe_path                                                              *)
(***************************************************************************)
\* str(full_path).startswith(str(WORKSPACE.resolve()))
InsideRoot(f, full_path, root) == StartsWith(Str(full_path), Str(Realpath(f, root)))

_safe_path(f, root, relative_path) ==
    LET full_path == Realpath(f, Join(root, relative_path))
    IN  IF ~InsideRoot(f, full_path, root)
        THEN [ok |-> FALSE, path |-> <<>>]
        ELSE [ok |-> TRUE, path |-> full_path]

(***************************************************************************)
(* The host file system: canonical path -> node.  "/" always exists.       *)
(***************************************************************************)
Dir == [kind |-> "dir", data |-> <<>>, perm |-> "rw"]
\* a symbolic link; its data is the path it points to
Link(target) == [kind |-> "link", data |-> target, perm |-> "rw"]
File(bytes) == [kind |-> "file", data |-> bytes, perm |-> "rw"]
\* a file of mode 000: it can be stat'ed but not opened
Locked(bytes) == [kind |-> "file", data |-> bytes, perm |-> "none"]

\* what the kernel makes of an absolute path: every segment but the last is
\* looked up in a directory, ".." is the directory's parent, and a symbolic
\* link, the last segment included, is followed
RECURSIVE Walk(_, _, _)
Walk(f, cur, rest) ==
    IF cur \notin DOMAIN f THEN [err |-> "ENOENT", path |-> <<>>]
    ELSE IF f[cur].kind = "link" THEN Walk(f, <<>>, f[cur].data \o rest)
    ELSE IF rest = <<>> THEN [err |-> "", path |-> cur]
    ELSE IF f[cur].kind # "dir" THEN [err |-> "ENOTDIR", path |-> <<>>]
    ELSE IF Head(rest) = DotDot THEN Walk(f, Parent(cur), Tail(rest))
    ELSE Walk(f, Append(cur, Head(rest)), Tail(rest))

Stat(f, p) == Walk(f, <<>>, p)

\* Path.exists(), Path.is_dir(), Path.is_file(): False on ENOENT and ENOTDIR
Exists(f, p) == Stat(f, p).err = ""
IsDir(f, p) == Exists(f, p) /\ f[Stat(f, p).path].kind = "dir"
IsFile(f, p) == Exists(f, p) /\ f[Stat(f, p).path].kind = "file"

\* Path.is_symlink(), DirEntry.is_symlink(): the last segment is not followed
IsLink(f, p) ==
    /\ p # <<>> /\ Exists(f, Parent(p))
    /\ Append(Stat(f, Parent(p)).path, p[Len(p)]) \in DOMAIN f
    /\ f[Append(Stat(f, Parent(p)).path, p[Len(p)])].kind = "link"

\* stat().st_size
StSize(f, p) == Len(f[Stat(f, p).path].data)

\* Path.name and Path.suffix
Name(p) == IF p = <<>> THEN <<>> ELSE p[Len(p)]

LastDot(nm) ==
    IF \E i \in 1..Len(nm) : nm[i] = "."
    THEN CHOOSE i \in 1..Len(nm) : nm[i] = "." /\ \A j \in (i + 1)..Len(nm) : nm[j] # "."
    ELSE 0

Suffix(p) ==
    LET nm == Name(p)
        i == LastDot(nm)
    IN  IF i > 1 /\ i < Len(nm) THEN SubSeq(nm, i, Len(nm)) ELSE <<>>

\* Path.mkdir(parents=True, exist_ok=True).  os.mkdir fails with ENOTDIR or
\* EEXIST when a segment on the way is a regular file, and nothing has been
\* created by then; otherwise every missing segment becomes a directory.
Prefixes(p) == {SubSeq(p, 1, k) : k \in 0..Len(p)}

MkdirFails(f, p) == \E q \in Prefixes(p) : q \in DOMAIN f /\ f[q].kind # "dir"

MkdirParents(f, p) ==
    [q \in DOMAIN f \cup Prefixes(p) |-> IF q \in DOMAIN f THEN f[q] ELSE Dir]

\* the exception os.mkdir raises then: EEXIST on a file, ENOTDIR below one
MkdirError(f, p) ==
    IF p \in DOMAIN f THEN "FileExistsError" ELSE "NotADirectoryError"

\* as Path.mkdir(exist_ok=True) would do without parents=True
Mkdir_no_parents(f, p) ==
    IF p # <<>> /\ Parent(p) \notin DOMAIN f /\ ~MkdirFails(f, p)
    THEN [fs |-> f, exc |-> "FileNotFoundError"]
    ELSE IF MkdirFails(f, p) THEN [fs |-> f, exc |-> MkdirError(f, p)]
    ELSE [fs |-> MkdirParents(f, p), exc |-> ""]

Mkdir(f, p) ==
    IF MkdirFails(f, p) THEN [fs |-> f, exc |-> MkdirError(f, p)]
    ELSE [fs |-> MkdirParents(f, p), exc |-> ""]

(***************************************************************************)
(* Text: UTF-8, ASCII, newline translation                                 *)
(***************************************************************************)
\* "E'" is e-acute (two bytes in UTF-8); the byte "FF" occurs in no encoding
RECURSIVE EncodeUtf8(_)
EncodeUtf8(s) ==
    IF s = <<>> THEN <<>>
    ELSE (IF Head(s) = "E'" THEN <<"C3", "A9">> ELSE <<Head(s)>>) \o EncodeUtf8(Tail(s))

HighBytes == {"C3", "A9", "FF"}

RECURSIVE DecodeUtf8(_)
DecodeUtf8(b) ==
    IF b = <<>> THEN [ok |-> TRUE, text |-> <<>>]
    ELSE IF Head(b) = "C3"
    THEN IF Len(b) >= 2 /\ b[2] = "A9"
         THEN LET r == DecodeUtf8(SubSeq(b, 3, Len(b)))
              IN  [ok |-> r.ok, text |-> <<"E'">> \o r.text]
         ELSE [ok |-> FALSE, text |-> <<>>]
    ELSE IF Head(b) \in HighBytes THEN [ok |-> FALSE, text |-> <<>>]
    ELSE LET r == DecodeUtf8(Tail(b))
         IN  [ok |-> r.ok, text |-> <<Head(b)>> \o r.text]

DecodeAscii(b) ==
    IF \E i \in 1..Len(b) : b[i] \in HighBytes
    THEN [ok |-> FALSE, text |-> <<>>]
    ELSE [ok |-> TRUE, text |-> b]

KnownCodecs == {"utf-8", "ascii"}

Decode(b, encoding) == IF encoding = "utf-8" THEN DecodeUtf8(b) ELSE DecodeAscii(b)

\* text mode, newline=None, reading: "\r\n" and "\r" both become "\n"
RECURSIVE UniversalNewlines(_)
UniversalNewlines(s) ==
    IF s = <<>> THEN <<>>
    ELSE IF Head(s) = "CR"
    THEN IF Len(s) >= 2 /\ s[2] = "LF"
         THEN <<"LF">> \o UniversalNewlines(SubSeq(s, 3, Len(s)))
         ELSE <<"LF">> \o UniversalNewlines(Tail(s))
    ELSE <<Head(s)>> \o UniversalNewlines(Tail(s))

\* text mode, newline=None, writing: "\n" becomes os.linesep
LineSep == <<"LF">>

RECURSIVE TranslateOut(_)
TranslateOut(s) ==
    IF s = <<>> THEN <<>>
    ELSE (IF Head(s) = "LF" THEN LineSep ELSE <<Head(s)>>) \o TranslateOut(Tail(s))

\* Path.read_text(encoding): the caller has checked that the codec exists
\* and that the file may be opened
ReadText(f, p, encoding) ==
    LET r == Decode(f[Stat(f, p).path].data, encoding)
    IN  [ok |-> r.ok, text |-> UniversalNewlines(r.text)]

\* the bytes Path.write_text(content, encoding="utf-8") leaves in the file
WrittenBytes(content) == EncodeUtf8(TranslateOut(content))

\* str.count
Count(s, c) == Cardinality({i \in 1..Len(s) : s[i] = c})

\* str.strip(): whitespace off both ends
IsSpace(c) == c \in {"SP", "LF", "CR"}

RECURSIVE LStrip(_)
LStrip(s) == IF s # <<>> /\ IsSpace(Head(s)) THEN LStrip(Tail(s)) ELSE s

RECURSIVE RStrip(_)
RStrip(s) ==
    IF s # <<>> /\ IsSpace(s[Len(s)]) THEN RStrip(SubSeq(s, 1, Len(s) - 1)) ELSE s

Strip(s) == RStrip(LStrip(s))

(***************************************************************************)
(* pathlib: glob and rglob (CPython 3.11)                                  *)
(***************************************************************************)
\* every segment name of the model; a host order is a sequence of all of them
NameW == <<"w">>
NameWe == <<"w", "e">>
NameO == <<"o">>
NameA == <<"a">>
NameI == <<"i", ".", "P", "n", "G">>
NameL == <<"l">>
NameLa == <<"l", "a">>
NameLs == <<"l", "s">>
NameLx == <<"l", "x">>
NameM == <<"m", ".", "t">>
NameN == <<"n", ".", "t">>
NameP == <<"p", ".", "t">>
NameS == <<"s">>
NameX == <<"x">>

\* os.scandir lists a directory in an order of the host's choosing
HostOrders ==
    { <<NameA, NameI, NameL, NameLa, NameLs, NameLx, NameM, NameN, NameO, NameP, NameS,
        NameW, NameWe, NameX>>,
      <<NameX, NameWe, NameW, NameS, NameP, NameO, NameN, NameM, NameLx, NameLs, NameLa,
        NameL, NameI, NameA>>,
      <<NameN, NameLs, NameA, NameP, NameM, NameWe, NameL, NameX, NameI, NameS, NameLx,
        NameO, NameLa, NameW>> }

\* the names os.scandir(p) yields, p being a directory
Scandir(f, ord, p) ==
    LET d == Stat(f, p).path
    IN  SelectSeq(ord, LAMBDA nm : Append(d, nm) \in DOMAIN f)

\* fnmatch on one name: "*" any run of characters, "?" any one character
RECURSIVE FnMatch(_, _)
FnMatch(nm, pat) ==
    IF pat = <<>> THEN nm = <<>>
    ELSE IF Head(pat) = "*"
    THEN FnMatch(nm, Tail(pat)) \/ (nm # <<>> /\ FnMatch(Tail(nm), pat))
    ELSE /\ nm # <<>>
         /\ (Head(pat) = "?" \/ Head(pat) = Head(nm))
         /\ FnMatch(Tail(nm), Tail(pat))

IsWildcard(pat) == \E i \in 1..Len(pat) : pat[i] \in {"*", "?"}

StarStar == <<"*", "*">>

\* the first occurrence of every element, as the "yielded" set keeps it
RECURSIVE Dedup(_)
Dedup(s) ==
    IF s = <<>> THEN <<>>
    ELSE LET r == Dedup(SubSeq(s, 1, Len(s) - 1))
         IN  IF \E i \in 1..Len(r) : r[i] = s[Len(s)] THEN r ELSE Append(r, s[Len(s)])

RECURSIVE IterDirs(_, _, _), IterDirsEach(_, _, _, _)
\* _RecursiveWildcardSelector._iterate_directories
IterDirs(f, ord, p) == <<p>> \o IterDirsEach(f, ord, p, Scandir(f, ord, p))

IterDirsEach(f, ord, p, names) ==
    IF names = <<>> THEN <<>>
    ELSE (IF IsDir(f, Append(p, Head(names))) /\ ~IsLink(f, Append(p, Head(names)))
          THEN IterDirs(f, ord, Append(p, Head(names)))
          ELSE <<>>) \o IterDirsEach(f, ord, p, Tail(names))

RECURSIVE Select(_, _, _, _), SelectNames(_, _, _, _, _), SelectStarts(_, _, _, _)
\* _make_selector(parts).select_from(p) past its is_dir test: the paths
\* selected below p, in the order they are yielded
Select(f, ord, parts, p) ==
    IF parts = <<>> THEN <<p>>
    ELSE IF Head(parts) = StarStar
    THEN Dedup(SelectStarts(f, ord, Tail(parts), IterDirs(f, ord, p)))
    ELSE IF IsWildcard(Head(parts))
    THEN SelectNames(f, ord, parts, p, Scandir(f, ord, p))
    ELSE LET path == Append(p, Head(parts))
         IN  IF (IF Tail(parts) # <<>> THEN IsDir(f, path) ELSE Exists(f, path))
             THEN Select(f, ord, Tail(parts), path)
             ELSE <<>>

\* _WildcardSelector._select_from over the scanned names
SelectNames(f, ord, parts, p, names) ==
    IF names = <<>> THEN <<>>
    ELSE (IF /\ (Tail(parts) # <<>> => IsDir(f, Append(p, Head(names))))
             /\ FnMatch(Head(names), Head(parts))
          THEN Select(f, ord, Tail(parts), Append(p, Head(names)))
          ELSE <<>>) \o SelectNames(f, ord, parts, p, Tail(names))

\* _RecursiveWildcardSelector._select_from over the starting points
SelectStarts(f, ord, parts, starts) ==
    IF starts = <<>> THEN <<>>
    ELSE Select(f, ord, parts, Head(starts)) \o SelectStarts(f, ord, parts, Tail(starts))

\* the exception glob raises for a pattern, "" if none
GlobError(pattern, recursive) ==
    LET parts == Parts(pattern)
    IN  IF ~recursive /\ pattern = <<>> THEN "ValueError"
        ELSE IF IsAbs(pattern) THEN "NotImplementedError"
        ELSE IF ~recursive /\ parts = <<>> THEN "IndexError"
        ELSE IF \E i \in 1..Len(parts) :
                    parts[i] # StarStar /\ Contains(parts[i], StarStar)
        THEN "ValueError"
        ELSE ""

\* Path.glob(pattern) and Path.rglob(pattern) on p
Glob(f, ord, p, pattern) ==
    IF IsDir(f, p) THEN Select(f, ord, Parts(pattern), p) ELSE <<>>

RGlob(f, ord, p, pattern) ==
    IF IsDir(f, p) THEN Select(f, ord, <<StarStar>> \o Parts(pattern), p) ELSE <<>>

\* PurePath.__lt__: the segments compared in turn
RECURSIVE PathLess(_, _)
PathLess(p, q) ==
    IF q = <<>> THEN FALSE
    ELSE IF p = <<>> THEN TRUE
    ELSE IF Head(p) # Head(q) THEN StrLess(Head(p), Head(q))
    ELSE PathLess(Tail(p), Tail(q))

\* sorted(): a stable insertion sort
RECURSIVE Insert(_, _)
Insert(s, x) ==
    IF s = <<>> THEN <<x>>
    ELSE IF PathLess(x, Head(s)) THEN <<x>> \o s
    ELSE <<Head(s)>> \o Insert(Tail(s), x)

\* as the listing would be without sorted()
Sorted_omitted(s) == s

RECURSIVE Sorted(_)
Sorted(s) == IF s = <<>> THEN <<>> ELSE Insert(Sorted(SubSeq(s, 1, Len(s) - 1)), s[Len(s)])

\* PurePath.relative_to(other): segments, nothing is normalised
RelativeTo(p, other) ==
    IF IsUnder(p, other)
    THEN [ok |-> TRUE, rel |-> SubSeq(p, Len(other) + 1, Len(p))]
    ELSE [ok |-> FALSE, rel |-> <<>>]

(***************************************************************************)
(* The tools.  Each operator gives, for a file system f and a configured   *)
(* root, the file system the call leaves and what it returns; kind         *)
(* "Raised" is an exception that reaches the dispatcher.  Time stamps are  *)
(* left out of the results.                                                *)
(***************************************************************************)
\* arg is the argument a message quotes
Ret0 == [kind |-> "", exc |-> "", arg |-> "", path |-> <<>>, text |-> <<>>,
         entries |-> <<>>, n1 |-> 0, n2 |-> 0]

Msg(k) == [Ret0 EXCEPT !.kind = k]
Raised(e) == [Ret0 EXCEPT !.kind = "Raised", !.exc = e]

Out(f, r) == [fs |-> f, ret |-> r]

\* content.count("\n") + 1
LineCount(content) == Count(content, "LF") + 1

\* as the guard would be with is_file() in place of exists()
MustNotOverwrite_is_file(f, path, overwrite) == IsFile(f, path) /\ ~overwrite

\* path.exists() and not overwrite
MustNotOverwrite(f, path, overwrite) == Exists(f, path) /\ ~overwrite

\* the exception open(path, "w") raises, "" if none
OpenError(f, path) ==
    IF path \in DOMAIN f /\ f[path].kind = "dir" THEN "IsADirectoryError"
    ELSE IF path \in DOMAIN f /\ f[path].perm = "none" THEN "PermissionError"
    ELSE ""

\* as a file opened without O_TRUNC would be left
OpenForWrite_no_truncate(f, path) ==
    [q \in DOMAIN f \cup {path} |-> IF q \in DOMAIN f THEN f[q] ELSE File(<<>>)]

\* open(path, "w"), as write_text does: the file is created, or emptied if
\* it exists
OpenForWrite(f, path) ==
    [q \in DOMAIN f \cup {path} |->
        IF q # path THEN f[q]
        ELSE IF q \in DOMAIN f THEN [f[q] EXCEPT !.data = <<>>]
        ELSE File(<<>>)]

\* the write and close of write_text: the bytes go to offset 0 of the
\* descriptor, and what the file holds beyond them stays
WriteBytes(f, path, bytes) ==
    [f EXCEPT ![path].data = bytes \o SubSeq(@, Len(bytes) + 1, Len(@))]

\* the summary write_file returns
Saved(content) == [Msg("Saved") EXCEPT !.n1 = Len(content), !.n2 = LineCount(content)]

write_file(f, root, file_path, content, overwrite) ==
    LET sp == _safe_path(f, root, file_path)
        path == sp.path
        made == Mkdir(f, Parent(path))
        f1 == made.fs
    IN  IF ~sp.ok THEN Out(f, Msg("AccessDenied"))
        ELSE IF MustNotOverwrite(f, path, overwrite) THEN Out(f, Msg("AlreadyExists"))
        ELSE IF made.exc # "" THEN Out(f, Raised(made.exc))
        ELSE IF OpenError(f1, path) # "" THEN Out(f1, Raised(OpenError(f1, path)))
        ELSE Out(WriteBytes(OpenForWrite(f1, path), path, WrittenBytes(content)),
                 Saved(content))

binary_extensions ==
    { <<".", "p", "n", "g">>, <<".", "j", "p", "g">>, <<".", "j", "p", "e", "g">>,
      <<".", "g", "i", "f">>, <<".", "p", "d", "f">>, <<".", "z", "i", "p">>,
      <<".", "e", "x", "e">> }

\* as the test would be without lower()
IsBinary_case_sensitive(path) == Suffix(path) \in binary_extensions

\* path.suffix.lower() in binary_extensions
IsBinary(path) == Lower(Suffix(path)) \in binary_extensions

\* as a file opened in mode "w+" would be left: empty
OpenForRead_truncating(f, path) ==
    [q \in DOMAIN f |-> IF q = path THEN [f[q] EXCEPT !.data = <<>>] ELSE f[q]]

\* open(path, "r"): the file system after a file has been opened for reading
OpenForRead(f, path) == f

read_file(f, root, file_path, encoding) ==
    LET sp == _safe_path(f, root, file_path)
        path == sp.path
        content == ReadText(f, path, encoding)
    IN  IF ~sp.ok THEN Out(f, Msg("AccessDenied"))
        ELSE IF ~Exists(f, path) THEN Out(f, Msg("NotFound"))
        ELSE IF ~IsFile(f, path) THEN Out(f, Msg("NotAFile"))
        ELSE IF IsBinary(path) THEN Out(f, Msg("Binary"))
        ELSE IF f[path].perm = "none" THEN Out(f, Raised("PermissionError"))
        ELSE IF encoding \notin KnownCodecs
        THEN Out(OpenForRead(f, path), Raised("LookupError"))
        ELSE IF ~content.ok
        THEN Out(OpenForRead(f, path), [Msg("DecodeError") EXCEPT !.arg = encoding])
        ELSE Out(OpenForRead(f, path),
                 [Msg("Content") EXCEPT !.text = content.text,
                                        !.n1 = LineCount(content.text)])

create_directory(f, root, dir_path) ==
    LET sp == _safe_path(f, root, dir_path)
        path == sp.path
        made == Mkdir(f, path)
    IN  IF ~sp.ok THEN Out(f, Msg("AccessDenied"))
        ELSE IF Exists(f, path) THEN Out(f, Msg("AlreadyExists"))
        ELSE IF made.exc # "" THEN Out(f, Raised(made.exc))
        ELSE Out(made.fs, Msg("Created"))

\* as the items would be with rglob("*") in place of iterdir()
Children_recursive(f, p) == {q \in DOMAIN f : IsUnder(q, p) /\ q # p}

\* Path.iterdir()
Children(f, p) == {q \in DOMAIN f : Len(q) = Len(p) + 1 /\ Parent(q) = p}

get_file_info(f, root, file_path) ==
    LET sp == _safe_path(f, root, file_path)
        path == sp.path
        items == Children(f, path)
    IN  IF ~sp.ok THEN Out(f, Msg("AccessDenied"))
        ELSE IF ~Exists(f, path) THEN Out(f, Msg("NotFound"))
        ELSE IF IsFile(f, path)
        THEN Out(f, [Msg("FileInfo") EXCEPT !.text = Suffix(path), !.n1 = StSize(f, path)])
        ELSE Out(f, [Msg("DirInfo") EXCEPT
                        !.n1 = Cardinality({i \in items : IsDir(f, i)}),
                        !.n2 = Cardinality({i \in items : IsFile(f, i)})])

\* as the unit would be with "<=" in place of "<"
SizeUnit_inclusive(size) ==
    IF size =< 1024 THEN "B" ELSE IF size =< 1024 * 1024 THEN "KB" ELSE "MB"

\* the unit a size is shown in
SizeUnit(size) ==
    IF size < 1024 THEN "B" ELSE IF size < 1024 * 1024 THEN "KB" ELSE "MB"

\* one line of the listing
ListEntry(f, root, item) ==
    IF IsDir(f, item)
    THEN [rel |-> RelativeTo(item, root).rel, isdir |-> TRUE, size |-> 0, unit |-> ""]
    ELSE [rel |-> RelativeTo(item, root).rel, isdir |-> FALSE,
          size |-> StSize(f, item), unit |-> SizeUnit(StSize(f, item))]

list_files(f, root, ord, directory, pattern) ==
    LET sp == _safe_path(f, root, directory)
        target == sp.path
        items == Sorted(Glob(f, ord, target, pattern))
    IN  IF ~sp.ok THEN Out(f, Msg("AccessDenied"))
        ELSE IF ~Exists(f, target) THEN Out(f, Msg("NotFound"))
        ELSE IF ~IsDir(f, target) THEN Out(f, Msg("NotADirectory"))
        ELSE IF GlobError(pattern, FALSE) # "" THEN Out(f, Raised(GlobError(pattern, FALSE)))
        ELSE IF items = <<>> THEN Out(f, Msg("Empty"))
        ELSE IF \E i \in 1..Len(items) : ~RelativeTo(items[i], root).ok
        THEN Out(f, Raised("ValueError"))
        ELSE IF \E i \in 1..Len(items) : ~Exists(f, items[i])
        THEN Out(f, Raised("FileNotFoundError"))
        ELSE Out(f, [Msg("Listing") EXCEPT
                        !.entries = [i \in 1..Len(items) |-> ListEntry(f, root, items[i])],
                        !.n1 = Len(items)])

\* the exception file_path.read_text(encoding="utf-8") raises, "" if none
ReadError(f, file_path) ==
    IF f[Stat(f, file_path).path].perm = "none" THEN "PermissionError"
    ELSE IF ~ReadText(f, file_path, "utf-8").ok THEN "UnicodeDecodeError"
    ELSE ""

\* as the clause would be if it caught decoding errors only
SkipErrors_decode_only == {"UnicodeDecodeError"}

\* except (UnicodeDecodeError, PermissionError): continue
SkipErrors == {"UnicodeDecodeError", "PermissionError"}

\* the hits of one file: the lines of its text that contain the keyword
FileHits(f, file_path, keyword) ==
    LET content == ReadText(f, file_path, "utf-8")
        lines == Split(content.text, "LF")
        hit == {i \in 1..Len(lines) : Contains(Lower(lines[i]), Lower(keyword))}
        RECURSIVE from(_)
        from(i) ==
            IF i > Len(lines) THEN <<>>
            ELSE (IF i \in hit
                  THEN <<[path |-> file_path, line |-> i, text |-> Strip(lines[i])]>>
                  ELSE <<>>) \o from(i + 1)
    IN  IF ReadError(f, file_path) # "" THEN <<>> ELSE from(1)

\* the exception that leaves the loop body for one file, "" if none: one that
\* read_text raises and the except clause does not name, or the ValueError
\* of relative_to at the first hit
Uncaught(f, root, file_path, keyword) ==
    IF ReadError(f, file_path) # ""
    THEN IF ReadError(f, file_path) \in SkipErrors THEN "" ELSE ReadError(f, file_path)
    ELSE IF FileHits(f, file_path, keyword) # <<>> /\ ~RelativeTo(file_path, root).ok
    THEN "ValueError"
    ELSE ""

RECURSIVE AllHits(_, _, _)
AllHits(f, files, keyword) ==
    IF files = <<>> THEN <<>>
    ELSE FileHits(f, Head(files), keyword) \o AllHits(f, Tail(files), keyword)

search_files(f, root, ord, keyword, file_pattern, directory) ==
    LET sp == _safe_path(f, root, directory)
        search_dir == sp.path
        files == SelectSeq(RGlob(f, ord, search_dir, file_pattern),
                           LAMBDA p : IsFile(f, p))
        files_searched == Len(files)
        results == AllHits(f, files, keyword)
        raising == {i \in 1..Len(files) : Uncaught(f, root, files[i], keyword) # ""}
        first == CHOOSE i \in raising : \A j \in raising : i =< j
    IN  IF ~sp.ok THEN Out(f, Msg("AccessDenied"))
        ELSE IF ~Exists(f, search_dir) THEN Out(f, Msg("NotFound"))
        ELSE IF GlobError(file_pattern, TRUE) # ""
        THEN Out(f, Raised(GlobError(file_pattern, TRUE)))
        ELSE IF raising # {}
        THEN Out(f, Raised(Uncaught(f, root, files[first], keyword)))
        ELSE IF results = <<>> THEN Out(f, [Msg("NoHits") EXCEPT !.n1 = files_searched])
        ELSE Out(f, [Msg("Hits") EXCEPT
                        !.entries = [i \in 1..Len(results) |->
                                        [rel |-> RelativeTo(results[i].path, root).rel,
                                         line |-> results[i].line,
                                         text |-> results[i].text]],
                        !.n1 = Len(results)])

(***************************************************************************)
(* Arguments and initial file systems                                      *)
(***************************************************************************)
\* "a/b/c" from its segments, and "/a/b/c"
RECURSIVE Rel(_)
Rel(segs) ==
    IF segs = <<>> THEN <<>>
    ELSE IF Len(segs) = 1 THEN segs[1]
    ELSE segs[1] \o <<"/">> \o Rel(Tail(segs))

Abs(segs) == <<"/">> \o Rel(segs)

\* FILE_WORKSPACE as configured: "/w", or "/o/../w", which names the same
\* directory without being canonical
Roots == {<<NameW>>, <<NameO, DotDot, NameW>>}

W == <<NameW>>

PathArgs ==
    { <<>>,                                   \* the root
      Rel(<<NameA>>),
      Rel(<<NameA, NameN>>),
      Rel(<<NameM>>),
      Rel(<<NameA, DotDot, NameP>>),          \* "a/../p.t", inside
      Rel(<<DotDot>>),                        \* "/"
      Rel(<<DotDot, NameWe>>),                \* the sibling "/we"
      Rel(<<DotDot, NameWe, NameX>>),
      Abs(<<NameWe, NameS>>),
      Abs(<<NameO, NameS>>) }

TextH == <<"h">>
TextCRLF == <<"H", "CR", "LF", "h", "E'">>
TextLines == <<"SP", "a", "LF", "H", "SP", "h", "SP", "LF">>

Contents == {TextH, TextCRLF}

Encodings == {"utf-8", "ascii", "bogus"}

\* what lies outside the workspace at the start
Outside ==
    (<<>> :> Dir) @@ (<<NameO>> :> Dir) @@ (<<NameO, NameS>> :> File(<<"s">>))
    @@ (<<NameWe>> :> Dir) @@ (<<NameWe, NameX>> :> File(<<"x">>))

FsEmpty == (W :> Dir) @@ Outside

FsTree ==
    (W :> Dir) @@ (<<NameW, NameA>> :> Dir)
    @@ (<<NameW, NameA, NameN>> :> File(EncodeUtf8(TextLines)))
    @@ (<<NameW, NameM>> :> File(<<"a">>)) @@ Outside

\* "a" is a regular file, and "m.t" cannot be opened
FsFlat ==
    (W :> Dir) @@ (<<NameW, NameA>> :> File(<<"h", "FF">>))
    @@ (<<NameW, NameM>> :> Locked(<<"h">>)) @@ Outside

InitialFs == {FsEmpty, FsTree, FsFlat}

Call0 == [op |-> "idle", path |-> <<>>, content |-> <<>>, overwrite |-> FALSE,
          encoding |-> "", pattern |-> <<>>, keyword |-> <<>>, size |-> 0]

\* last_write is history: the last write_file(p, c, overwrite=True) that
\* succeeded, as long as nothing has changed the file system since.  threads
\* are the requests served at the same time, where the server is modelled
\* that way, and finished lists them in the order their writes completed.
NoWrite == [set |-> FALSE, path |-> <<>>, content |-> <<>>]

(***************************************************************************)
(* The server: one action per tool call                                    *)
(***************************************************************************)
Init ==
    /\ WORKSPACE \in Roots
    /\ fs \in InitialFs
    /\ call = Call0
    /\ ret = Ret0
    /\ nmut = 0
    /\ last_write = NoWrite
    /\ threads = <<>>
    /\ finished = <<>>

\* the server takes one request at a time: the call leaves file system out.fs
\* and returns out.ret; at most MaxMut calls change the file system
Returns(c, out) ==
    /\ call.op = "idle"
    /\ out.fs # fs => nmut < MaxMut
    /\ fs' = out.fs
    /\ nmut' = IF out.fs # fs THEN nmut + 1 ELSE nmut
    /\ call' = c
    /\ ret' = out.ret
    /\ last_write' =
           IF c.op = "write_file" /\ c.overwrite /\ out.ret.kind = "Saved"
           THEN [set |-> TRUE, path |-> c.path, content |-> c.content]
           ELSE IF out.fs # fs THEN NoWrite
           ELSE last_write
    /\ UNCHANGED <<WORKSPACE, threads, finished>>

Call_write_file(file_path, content, overwrite) ==
    Returns([Call0 EXCEPT !.op = "write_file", !.path = file_path,
                          !.content = content, !.overwrite = overwrite],
            write_file(fs, WORKSPACE, file_path, content, overwrite))

Call_read_file(file_path, encoding) ==
    Returns([Call0 EXCEPT !.op = "read_file", !.path = file_path, !.encoding = encoding],
            read_file(fs, WORKSPACE, file_path, encoding))

Call_create_directory(dir_path) ==
    Returns([Call0 EXCEPT !.op = "create_directory", !.path = dir_path],
            create_directory(fs, WORKSPACE, dir_path))

Call_get_file_info(file_path) ==
    Returns([Call0 EXCEPT !.op = "get_file_info", !.path = file_path],
            get_file_info(fs, WORKSPACE, file_path))

Call_list_files(directory, pattern) ==
    \E ord \in HostOrders :
        Returns([Call0 EXCEPT !.op = "list_files", !.path = directory, !.pattern = pattern],
                list_files(fs, WORKSPACE, ord, directory, pattern))

Call_search_files(keyword, file_pattern, directory) ==
    \E ord \in HostOrders :
        Returns([Call0 EXCEPT !.op = "search_files", !.path = directory,
                              !.pattern = file_pattern, !.keyword = keyword],
                search_files(fs, WORKSPACE, ord, keyword, file_pattern, directory))

\* the dispatcher has sent the result and waits for the next request
Dispatch ==
    /\ call.op # "idle"
    /\ call' = Call0
    /\ ret' = Ret0
    /\ UNCHANGED <<WORKSPACE, fs, nmut, last_write, threads, finished>>

PatStar == <<"*">>
PatT == <<"*", ".", "t">>

Next ==
    \/ \E p \in PathArgs, c \in Contents, o \in BOOLEAN : Call_write_file(p, c, o)
    \/ \E p \in PathArgs, e \in Encodings : Call_read_file(p, e)
    \/ \E p \in PathArgs : Call_create_directory(p)
    \/ \E p \in PathArgs : Call_get_file_info(p)
    \/ \E p \in PathArgs, g \in {PatStar, <<>>} : Call_list_files(p, g)
    \/ \E p \in PathArgs, g \in {PatStar, PatT} : Call_search_files(<<"h">>, g, p)
    \/ Dispatch

Spec == Init /\ [][Next]_vars

TypeOK ==
    /\ WORKSPACE \in Roots
    /\ <<>> \in DOMAIN fs /\ W \in DOMAIN fs /\ fs[W].kind = "dir"
    /\ \A q \in DOMAIN fs : q # <<>> => Parent(q) \in DOMAIN fs /\ fs[Parent(q)].kind = "dir"
    /\ nmut \in 0..MaxMut

(***************************************************************************)
(* _safe_path on its own, over every argument string of up to MaxStrLen    *)
(* characters                                                              *)
(***************************************************************************)
Alphabet == {"/", ".", "w", "e", "a"}

Strings(n) == UNION {[1..k -> Alphabet] : k \in 0..n}

InitResolve ==
    /\ WORKSPACE \in Roots
    /\ fs = FsEmpty
    /\ call \in {[Call0 EXCEPT !.op = "arg", !.path = s] : s \in Strings(MaxStrLen)}
    /\ ret = Ret0
    /\ nmut = 0
    /\ last_write = NoWrite
    /\ threads = <<>>
    /\ finished = <<>>

Call_safe_path ==
    /\ call.op = "arg"
    /\ call' = [call EXCEPT !.op = "_safe_path"]
    /\ ret' = LET sp == _safe_path(fs, WORKSPACE, call.path)
              IN  IF sp.ok THEN [Msg("Path") EXCEPT !.path = sp.path]
                  ELSE Msg("AccessDenied")
    /\ UNCHANGED <<WORKSPACE, fs, nmut, last_write, threads, finished>>

SpecResolve == InitResolve /\ [][Call_safe_path]_vars

(***************************************************************************)
(* Listing and searching, over richer trees and patterns                   *)
(***************************************************************************)
\* "n.t" has the keyword in two letter cases; "p.t" in "a" is not UTF-8;
\* "p.t" in the root cannot be opened; "s" does not match "*.t"
FsDocs ==
    (W :> Dir) @@ (<<NameW, NameA>> :> Dir)
    @@ (<<NameW, NameA, NameN>> :> File(EncodeUtf8(TextLines)))
    @@ (<<NameW, NameA, NameP>> :> File(<<"h", "FF">>))
    @@ (<<NameW, NameM>> :> File(<<"h", "H", "CR", "a", "LF", "E'">>))
    @@ (<<NameW, NameP>> :> Locked(<<"h">>))
    @@ (<<NameW, NameS>> :> File(<<"h">>)) @@ Outside

SearchFs == {FsTree, FsDocs, FsFlat}

DirArgs ==
    { <<>>, Rel(<<NameA>>), Rel(<<NameM>>), Rel(<<DotDot>>), Rel(<<DotDot, NameWe>>) }

ListPatterns ==
    { PatStar, PatT, <<>>, <<"?">>, StarStar, Rel(<<PatStar, PatStar>>),
      Rel(<<DotDot, NameWe, PatStar>>) }

SearchPatterns ==
    { PatStar, PatT, <<>>, Rel(<<NameA, PatStar>>), Rel(<<DotDot, NameO, PatStar>>) }

Keywords == { <<"H">>, <<"x">>, <<"s">> }

InitSearch ==
    /\ WORKSPACE \in Roots
    /\ fs \in SearchFs
    /\ call = Call0
    /\ ret = Ret0
    /\ nmut = 0
    /\ last_write = NoWrite
    /\ threads = <<>>
    /\ finished = <<>>

NextSearch ==
    \/ \E p \in DirArgs, g \in ListPatterns : Call_list_files(p, g)
    \/ \E k \in Keywords, g \in SearchPatterns, p \in DirArgs : Call_search_files(k, g, p)
    \/ \E p \in {Rel(<<NameS>>), Rel(<<NameA, NameX>>)} : Call_write_file(p, TextLines, TRUE)
    \/ Dispatch

SpecSearch == InitSearch /\ [][NextSearch]_vars

(***************************************************************************)
(* Reading, over files and directories named like pictures                 *)
(***************************************************************************)
\* "i.PnG" cannot be opened and is not UTF-8; "a/i.PnG" is text; "m.t" is
\* not UTF-8; "s" is UTF-8 but not ASCII
FsPics ==
    (W :> Dir) @@ (<<NameW, NameI>> :> Locked(<<"FF">>))
    @@ (<<NameW, NameA>> :> Dir) @@ (<<NameW, NameA, NameI>> :> File(<<"h">>))
    @@ (<<NameW, NameM>> :> File(<<"h", "FF">>))
    @@ (<<NameW, NameS>> :> File(EncodeUtf8(TextCRLF))) @@ Outside

\* "i.PnG" is a directory
FsPicDir ==
    (W :> Dir) @@ (<<NameW, NameI>> :> Dir)
    @@ (<<NameW, NameM>> :> Locked(<<"h">>)) @@ Outside

ReadFs == {FsPics, FsPicDir}

ReadArgs ==
    { <<>>, Rel(<<NameI>>), Rel(<<NameA>>), Rel(<<NameA, NameI>>), Rel(<<NameM>>),
      Rel(<<NameS>>), Rel(<<NameX>>), Rel(<<NameM, NameX>>) }

InitRead ==
    /\ WORKSPACE \in Roots
    /\ fs \in ReadFs
    /\ call = Call0
    /\ ret = Ret0
    /\ nmut = 0
    /\ last_write = NoWrite
    /\ threads = <<>>
    /\ finished = <<>>

NextRead ==
    \/ \E p \in ReadArgs, e \in Encodings : Call_read_file(p, e)
    \/ \E p \in {Rel(<<NameX>>), Rel(<<NameI, NameX>>)} : Call_write_file(p, TextCRLF, TRUE)
    \/ Dispatch

SpecRead == InitRead /\ [][NextRead]_vars

(***************************************************************************)
(* Two write_file requests served at the same time.  Each goes through     *)
(* the statements of write_file in order; the steps are the system calls   *)
(* that look at or change the file system: the exists() test, the mkdir of *)
(* the parent, and the open and the write of write_text.  The paths taken  *)
(* here have the same parent or unrelated ones, so that the mkdir calls of *)
(* the two requests cannot fail one another.                               *)
(***************************************************************************)
ThreadPaths == { Rel(<<NameM>>), Rel(<<NameA, NameN>>) }

Thread0 == [pc |-> "check", path |-> <<>>, content |-> <<>>, overwrite |-> FALSE,
            ret |-> Ret0]

InitThreads ==
    /\ WORKSPACE \in Roots
    /\ fs \in InitialFs
    /\ call = Call0
    /\ ret = Ret0
    /\ nmut = 0
    /\ last_write = NoWrite
    /\ threads \in [1..2 -> {[Thread0 EXCEPT !.path = p, !.content = c, !.overwrite = o] :
                                p \in ThreadPaths, c \in Contents, o \in BOOLEAN}]
    /\ finished = <<>>

\* thread t goes to pc, or returns r
Goes(t, pc) == threads' = [threads EXCEPT ![t].pc = pc]
Ends(t, r) == threads' = [threads EXCEPT ![t].pc = "done", ![t].ret = r]

\* _safe_path and the test "path.exists() and not overwrite"
Thread_check(t) ==
    LET sp == _safe_path(fs, WORKSPACE, threads[t].path)
    IN  /\ threads[t].pc = "check"
        /\ IF ~sp.ok THEN Ends(t, Msg("AccessDenied"))
           ELSE IF MustNotOverwrite(fs, sp.path, threads[t].overwrite)
           THEN Ends(t, Msg("AlreadyExists"))
           ELSE Goes(t, "mkdir")
        /\ UNCHANGED <<WORKSPACE, fs, call, ret, nmut, last_write, finished>>

\* path.parent.mkdir(parents=True, exist_ok=True)
Thread_mkdir(t) ==
    LET path == _safe_path(fs, WORKSPACE, threads[t].path).path
        made == Mkdir(fs, Parent(path))
    IN  /\ threads[t].pc = "mkdir"
        /\ fs' = made.fs
        /\ IF made.exc # "" THEN Ends(t, Raised(made.exc)) ELSE Goes(t, "open")
        /\ UNCHANGED <<WORKSPACE, call, ret, nmut, last_write, finished>>

\* write_text: open(path, "w")
Thread_open(t) ==
    LET path == _safe_path(fs, WORKSPACE, threads[t].path).path
    IN  /\ threads[t].pc = "open"
        /\ IF OpenError(fs, path) # ""
           THEN fs' = fs /\ Ends(t, Raised(OpenError(fs, path)))
           ELSE fs' = OpenForWrite(fs, path) /\ Goes(t, "write")
        /\ UNCHANGED <<WORKSPACE, call, ret, nmut, last_write, finished>>

\* write_text: write and close, and the summary returned
Thread_write(t) ==
    LET path == _safe_path(fs, WORKSPACE, threads[t].path).path
    IN  /\ threads[t].pc = "write"
        /\ fs' = WriteBytes(fs, path, WrittenBytes(threads[t].content))
        /\ Ends(t, Saved(threads[t].content))
        /\ finished' = Append(finished, t)
        /\ UNCHANGED <<WORKSPACE, call, ret, nmut, last_write>>

NextThreads ==
    \E t \in DOMAIN threads :
        \/ Thread_check(t)
        \/ Thread_mkdir(t)
        \/ Thread_open(t)
        \/ Thread_write(t)

SpecThreads == InitThreads /\ [][NextThreads]_vars

(***************************************************************************)
(* The size shown in a listing: the unit chosen for sizes around the two   *)
(* limits, and listings of a file that is just below, at and above the     *)
(* first one                                                               *)
(***************************************************************************)
Sizes ==
    (0..20) \cup (1010..1040) \cup (1048560..1048590) \cup {2 * 1024 * 1024}

\* a file of n bytes
Filled(n) == File([i \in 1..n |-> "a"])

SizedFs ==
    { (W :> Dir) @@ (<<NameW, NameS>> :> Filled(n)) @@ Outside : n \in {0, 1023, 1024, 1025} }

InitSize ==
    /\ WORKSPACE \in Roots
    /\ fs \in SizedFs
    /\ call \in {Call0} \cup {[Call0 EXCEPT !.op = "arg", !.size = n] : n \in Sizes}
    /\ ret = Ret0
    /\ nmut = 0
    /\ last_write = NoWrite
    /\ threads = <<>>
    /\ finished = <<>>

\* the branch of list_files that picks the unit, on a size of its own
Call_size_str ==
    /\ call.op = "arg"
    /\ call' = [call EXCEPT !.op = "size_str"]
    /\ ret' = [Msg("Size") EXCEPT !.arg = SizeUnit(call.size), !.n1 = call.size]
    /\ UNCHANGED <<WORKSPACE, fs, nmut, last_write, threads, finished>>

NextSize ==
    \/ Call_size_str
    \/ Call_list_files(<<>>, PatStar)
    \/ Call_write_file(Rel(<<NameX>>), TextCRLF, TRUE)
    \/ Dispatch

SpecSize == InitSize /\ [][NextSize]_vars

(***************************************************************************)
(* A workspace with symbolic links in it: "ls" to the file "/o/s", "l" to  *)
(* the directory "/o", "la" to the directory "a" of the workspace, and     *)
(* "lx" to "/o/x", which does not exist                                    *)
(***************************************************************************)
FsLinks ==
    (W :> Dir) @@ (<<NameW, NameA>> :> Dir)
    @@ (<<NameW, NameA, NameN>> :> File(<<"h">>))
    @@ (<<NameW, NameLs>> :> Link(<<NameO, NameS>>))
    @@ (<<NameW, NameL>> :> Link(<<NameO>>))
    @@ (<<NameW, NameLa>> :> Link(<<NameW, NameA>>)) @@ Outside

FsBrokenLink == (<<NameW, NameLx>> :> Link(<<NameO, NameX>>)) @@ FsLinks

LinkDirs == { <<>>, Rel(<<NameA>>), Rel(<<NameL>>), Rel(<<NameLa>>) }

LinkPatterns == { PatStar, Rel(<<PatStar, PatStar>>), StarStar, Rel(<<NameL, PatStar>>) }

LinkPaths ==
    { <<>>, Rel(<<NameLs>>), Rel(<<NameL, NameS>>), Rel(<<NameLa, NameN>>), Rel(<<NameLx>>) }

InitLinks ==
    /\ WORKSPACE \in Roots
    /\ fs \in {FsLinks, FsBrokenLink}
    /\ call = Call0
    /\ ret = Ret0
    /\ nmut = 0
    /\ last_write = NoWrite
    /\ threads = <<>>
    /\ finished = <<>>

NextLinks ==
    \/ \E p \in LinkDirs, g \in LinkPatterns : Call_list_files(p, g)
    \/ \E k \in {<<"s">>, <<"h">>}, g \in LinkPatterns, p \in LinkDirs :
          Call_search_files(k, g, p)
    \/ \E p \in LinkPaths : Call_read_file(p, "utf-8")
    \/ \E p \in LinkPaths : Call_get_file_info(p)
    \/ \E p \in {Rel(<<NameLa, NameX>>), Rel(<<NameLs>>)} : Call_write_file(p, <<"s">>, TRUE)
    \/ Dispatch

SpecLinks == InitLinks /\ [][NextLinks]_vars

(***************************************************************************)
(* Properties                                                              *)
(***************************************************************************)
\* the canonical location an argument names, and whether it is the root or
\* has the root as an ancestor, segment by segment
Target(relative_path) == Resolve(Join(WORKSPACE, relative_path))
Root == Resolve(WORKSPACE)
Confined(relative_path) == IsUnder(Target(relative_path), Root)

Tools == {"list_files", "read_file", "write_file", "search_files",
          "get_file_info", "create_directory"}

\* C1: whatever the tools have been called with, nothing outside the
\* workspace root has been created or modified, and no call has returned
\* text of a file outside the root.
C1_WorkspaceConfinement ==
    /\ \A q \in DOMAIN fs \cup DOMAIN Outside :
          ~IsUnder(q, Root) => q \in DOMAIN fs /\ q \in DOMAIN Outside /\ fs[q] = Outside[q]
    /\ call.op = "read_file" /\ ret.kind = "Content" => Confined(call.path)
    /\ call.op = "search_files" /\ ret.kind = "Hits" =>
          \A i \in 1..Len(ret.entries) : IsUnder(Resolve(Root \o ret.entries[i].rel), Root)

\* C2: _safe_path returns a path only if that path is the root or below it
\* by segments, and raises for every other argument.
C2_SafePathConfines ==
    call.op = "_safe_path" =>
        /\ ret.kind = "Path" => IsUnder(ret.path, Root)
        /\ ~Confined(call.path) => ret.kind = "AccessDenied"

\* C3: a call whose path argument escapes the root returns the access-denied
\* message and leaves the file system as it was.
C3_EscapeDeniedFirst ==
    [][call'.op \in Tools /\ ~Confined(call'.path)
          => ret'.kind = "AccessDenied" /\ fs' = fs]_vars

\* C4: write_file(p, c, overwrite=False) on a path where a file or a
\* directory exists leaves the whole file system unchanged and, p being
\* inside the workspace, returns the already-exists message.
C4_NoOverwriteGuard ==
    [][call'.op = "write_file" /\ ~call'.overwrite /\ Target(call'.path) \in DOMAIN fs
          => /\ fs' = fs
             /\ Confined(call'.path) => ret'.kind = "AlreadyExists"]_vars

C4_Witness ==
    /\ call.op = "write_file" /\ ~call.overwrite /\ ret.kind = "AlreadyExists"
    /\ Confined(call.path) /\ IsFile(fs, Target(call.path))
    /\ fs[Target(call.path)].data # WrittenBytes(call.content)

\* C5: read_file(p) after write_file(p, c, overwrite=True), nothing having
\* changed the file system in between, returns exactly c, and a line count of
\* the line feeds in c plus one.
C5_RoundTrip ==
    /\ call.op = "read_file" /\ call.encoding = "utf-8"
    /\ last_write.set /\ call.path = last_write.path /\ Confined(call.path)
    => /\ ret.kind = "Content"
       /\ ret.text = last_write.content
       /\ ret.n1 = Count(last_write.content, "LF") + 1

\* C6: every call returns a message; no exception reaches the dispatcher.
C6_NoExceptionPropagates == call.op \in Tools => ret.kind # "Raised"

\* C7: create_directory(d), d inside the workspace: if a file or directory
\* exists at d, the already-exists message and no change; if d is missing and
\* every segment on the way is a directory or missing, d and every missing
\* segment on the way become directories and nothing else changes.
C7_CreateDirectory ==
    [][call'.op = "create_directory" /\ Confined(call'.path)
          => LET d == Target(call'.path)
             IN  /\ d \in DOMAIN fs => ret'.kind = "AlreadyExists" /\ fs' = fs
                 /\ (d \notin DOMAIN fs
                        /\ \A q \in Prefixes(d) : q \in DOMAIN fs => fs[q].kind = "dir")
                    => /\ ret'.kind = "Created"
                       /\ DOMAIN fs' = DOMAIN fs \cup Prefixes(d)
                       /\ \A q \in Prefixes(d) : fs'[q].kind = "dir"
                       /\ \A q \in DOMAIN fs : fs'[q] = fs[q]]_vars

\* "a/n.t" created as the first change of an empty workspace: "a" was missing
C7_Witness ==
    /\ call.op = "create_directory" /\ ret.kind = "Created" /\ nmut = 1
    /\ call.path = Rel(<<NameA, NameN>>)
    /\ IsDir(fs, <<NameW, NameA>>) /\ IsDir(fs, <<NameW, NameA, NameN>>)
    /\ Children(fs, W) = {<<NameW, NameA>>}

\* the regular files below directory d, at any depth, whose name matches the
\* pattern, and those of them that can be opened and decoded as UTF-8
MatchingFiles(d, pattern) ==
    {q \in DOMAIN fs : /\ IsUnder(q, d) /\ q # d /\ fs[q].kind = "file"
                       /\ FnMatch(Name(q), pattern)}

Scannable(q) == fs[q].perm # "none" /\ DecodeUtf8(fs[q].data).ok

LinesOf(q) == Split(UniversalNewlines(DecodeUtf8(fs[q].data).text), "LF")

ExpectedHits(d, pattern, keyword) ==
    UNION { { [rel |-> SubSeq(q, Len(Root) + 1, Len(q)), line |-> i,
               text |-> Strip(LinesOf(q)[i])] :
              i \in {j \in 1..Len(LinesOf(q)) :
                        Contains(Lower(LinesOf(q)[j]), Lower(keyword))} } :
            q \in {m \in MatchingFiles(d, pattern) : Scannable(m)} }

\* C8: search_files on an existing directory inside the workspace returns one
\* hit (relative path, line number, trimmed text) for every line containing
\* the keyword, letter case ignored, of every decodable file below the
\* directory whose name matches the pattern, and nothing else.
C8_SearchExact ==
    call.op = "search_files" /\ Confined(call.path) /\ Target(call.path) \in DOMAIN fs
    => LET want == ExpectedHits(Target(call.path), call.pattern, call.keyword)
       IN  /\ ret.kind \in {"Hits", "NoHits"}
           /\ {ret.entries[i] : i \in 1..Len(ret.entries)} = want
           /\ Len(ret.entries) = Cardinality(want)

\* C9: when search_files finds nothing, the count it reports is the number of
\* matching files that were opened and decoded.
C9_FilesScannedCount ==
    call.op = "search_files" /\ ret.kind = "NoHits" /\ Confined(call.path)
    => ret.n1 = Cardinality({q \in MatchingFiles(Target(call.path), call.pattern) :
                                Scannable(q)})

\* C10: a listing is in increasing path order, so entries of one directory
\* are in increasing name order, and the same call on the same file system
\* returns the same result whatever order the host lists directories in.
C10_ListingDeterministic ==
    call.op = "list_files"
    => /\ \A i, j \in 1..Len(ret.entries) :
             i < j => /\ PathLess(ret.entries[i].rel, ret.entries[j].rel)
                      /\ Parent(ret.entries[i].rel) = Parent(ret.entries[j].rel)
                         => StrLess(Name(ret.entries[i].rel), Name(ret.entries[j].rel))
       /\ \A ord \in HostOrders :
             list_files(fs, WORKSPACE, ord, call.path, call.pattern).ret = ret

C10_Witness ==
    /\ call.op = "list_files" /\ ret.kind = "Listing" /\ Len(ret.entries) >= 3
    /\ \E i \in 1..Len(ret.entries) : ~ret.entries[i].isdir

\* C11: read_file on a path inside the workspace answers in a fixed order:
\* not-found for a missing path; not-a-file for a directory, whatever its
\* name; binary-rejected for a regular file whose extension, letter case
\* ignored, is on the denylist, even one that could be neither opened nor
\* decoded; any other file that can be opened is decoded with a known
\* encoding, giving its text, or the decode-error message with the encoding
\* and no text at all.
C11_ReadClassification ==
    call.op = "read_file" /\ Confined(call.path)
    => LET t == Target(call.path)
           ext == Lower(Suffix(t))
           decoded == Decode(fs[t].data, call.encoding)
       IN  /\ t \notin DOMAIN fs => ret.kind = "NotFound"
           /\ t \in DOMAIN fs /\ fs[t].kind = "dir" => ret.kind = "NotAFile"
           /\ t \in DOMAIN fs /\ fs[t].kind = "file" /\ ext \in binary_extensions
              => ret.kind = "Binary" /\ ret.text = <<>>
           /\ ( /\ t \in DOMAIN fs /\ fs[t].kind = "file" /\ ext \notin binary_extensions
                /\ fs[t].perm = "rw" /\ call.encoding \in KnownCodecs )
              => IF decoded.ok
                 THEN ret.kind = "Content" /\ ret.text = UniversalNewlines(decoded.text)
                 ELSE ret.kind = "DecodeError" /\ ret.arg = call.encoding /\ ret.text = <<>>
           /\ ret.kind \in {"Content", "DecodeError"}
              => t \in DOMAIN fs /\ fs[t].kind = "file" /\ ext \notin binary_extensions

\* "i.PnG", which can be neither opened nor decoded, is rejected as binary
C11_Witness ==
    /\ call.op = "read_file" /\ ret.kind = "Binary" /\ Confined(call.path)
    /\ fs[Target(call.path)].perm = "none"
    /\ ~DecodeUtf8(fs[Target(call.path)].data).ok
    /\ Suffix(Target(call.path)) \notin binary_extensions

\* C12: list_files, read_file, search_files and get_file_info, whatever
\* their arguments and whether they succeed or not, leave every file and
\* directory as it was; a step that changes the file system is a write_file
\* or a create_directory.
C12_ReadsNonDestructive ==
    [][/\ call'.op \in {"list_files", "read_file", "search_files", "get_file_info"}
          => fs' = fs
       /\ fs' # fs => call'.op \in {"write_file", "create_directory"}]_vars

\* a file that is not empty has been read
C12_Witness ==
    /\ call.op = "read_file" /\ ret.kind = "Content" /\ ret.text # <<>>
    /\ fs[Target(call.path)].data # <<>>

\* C13: two write_file calls with overwrite=True on the same path inside
\* the workspace, served at the same time, their steps interleaved in any
\* way: once a write has completed and both calls have returned, both have
\* returned the summary, and the file holds exactly the content of the call
\* whose write completed last.
C13_LastWriteWins ==
    /\ threads # <<>>
    /\ \A t \in DOMAIN threads : threads[t].pc = "done" /\ threads[t].overwrite
    /\ threads[1].path = threads[2].path /\ Confined(threads[1].path)
    /\ finished # <<>>
    => /\ \A t \in DOMAIN threads : threads[t].ret.kind = "Saved"
       /\ fs[Target(threads[1].path)].data
             = EncodeUtf8(threads[finished[Len(finished)]].content)

\* C14: with the empty string as path argument every tool acts on the root
\* and leaves the file system as it was: list_files lists the children of
\* the root that match, search_files searches all of the workspace,
\* get_file_info reports a directory, create_directory answers
\* already-exists, read_file answers not-a-file, and write_file returns a
\* message, whatever overwrite is.
C14_EmptyPathIsRoot ==
    [][call'.op \in Tools /\ call'.path = <<>>
          => /\ fs' = fs
             /\ call'.op = "list_files"
                => /\ ret'.kind \in {"Listing", "Empty"}
                   /\ {ret'.entries[i].rel : i \in 1..Len(ret'.entries)}
                         = {<<Name(q)>> : q \in {c \in Children(fs, Root) :
                                                    FnMatch(Name(c), call'.pattern)}}
             /\ call'.op = "search_files"
                => /\ ret'.kind \in {"Hits", "NoHits"}
                   /\ {ret'.entries[i] : i \in 1..Len(ret'.entries)}
                         = ExpectedHits(Root, call'.pattern, call'.keyword)
             /\ call'.op = "get_file_info" => ret'.kind = "DirInfo"
             /\ call'.op = "create_directory" => ret'.kind = "AlreadyExists"
             /\ call'.op = "read_file" => ret'.kind = "NotAFile"
             /\ call'.op = "write_file" => ret'.kind # "Raised"]_vars

\* C15: the hits of search_files come file by file, the files in increasing
\* path order as list_files sorts them, whatever order the host lists
\* directories in, and the hits of one file by increasing line number.
C15_SearchOrder ==
    call.op = "search_files" /\ ret.kind = "Hits"
    => \A i, j \in 1..Len(ret.entries) :
          i < j => \/ PathLess(ret.entries[i].rel, ret.entries[j].rel)
                   \/ /\ ret.entries[i].rel = ret.entries[j].rel
                      /\ ret.entries[i].line < ret.entries[j].line

\* C16: a file that search_files cannot open or cannot decode as UTF-8 gives
\* no hit and no error and does not end the search: the call returns what it
\* would return, hit for hit, if those files were not there (only the count
\* of files searched may differ), and never raises their errors.
C16_BestEffortSearch ==
    call.op = "search_files"
    => LET bad == {q \in DOMAIN fs : /\ fs[q].kind = "file" /\ ~Scannable(q)
                                      /\ q # Target(call.path)}
           clean == [q \in DOMAIN fs \ bad |-> fs[q]]
       IN  /\ ret.kind = "Raised" => ret.exc \notin {"UnicodeDecodeError", "PermissionError"}
           /\ \E ord \in HostOrders :
                 LET r == search_files(clean, WORKSPACE, ord, call.keyword,
                                       call.pattern, call.path).ret
                 IN  IF r.kind = "NoHits" THEN ret.kind = "NoHits" ELSE ret = r

\* hits of two files are returned although the pattern also matches a file
\* that cannot be opened and one that is not UTF-8
C16_Witness ==
    /\ call.op = "search_files" /\ ret.kind = "Hits" /\ Confined(call.path)
    /\ \E i, j \in 1..Len(ret.entries) : ret.entries[i].rel # ret.entries[j].rel
    /\ \E q \in MatchingFiles(Target(call.path), call.pattern) : fs[q].perm = "none"
    /\ \E q \in MatchingFiles(Target(call.path), call.pattern) :
          fs[q].perm = "rw" /\ ~DecodeUtf8(fs[q].data).ok

\* C17: whatever the pattern, "/", "**" and ".." in it included, every entry
\* of a listing of directory d inside the workspace is an existing direct
\* child of d whose name matches the pattern, and lies inside the root.
C17_ListOnlyChildren ==
    call.op = "list_files" /\ ret.kind = "Listing" /\ Confined(call.path)
    => \A i \in 1..Len(ret.entries) :
          LET q == Root \o ret.entries[i].rel
          IN  /\ Len(q) = Len(Target(call.path)) + 1
              /\ Parent(q) = Target(call.path)
              /\ q \in DOMAIN fs
              /\ FnMatch(Name(q), call.pattern)
              /\ IsUnder(Resolve(q), Root)

\* C18: list_files on a directory argument inside the workspace answers
\* not-found if nothing is there, not-a-directory if it is not a directory,
\* and otherwise lists: the empty-result message when no child matches the
\* pattern, never an error, and else entries with a total that is their
\* number.
C18_ListClassification ==
    call.op = "list_files" /\ Confined(call.path)
    => LET d == Target(call.path)
       IN  /\ d \notin DOMAIN fs => ret.kind = "NotFound"
           /\ d \in DOMAIN fs /\ fs[d].kind # "dir" => ret.kind = "NotADirectory"
           /\ d \in DOMAIN fs /\ fs[d].kind = "dir"
              => /\ ret.kind \in {"Listing", "Empty"}
                 /\ {c \in Children(fs, d) : FnMatch(Name(c), call.pattern)} = {}
                    => ret.kind = "Empty"
                 /\ ret.kind = "Listing"
                    => ret.entries # <<>> /\ ret.n1 = Len(ret.entries)

\* C19: the summary of a successful write_file reports the number of bytes
\* written, that is the length of the content in UTF-8 and the size of the
\* file afterwards, and as line count the line feeds of the content plus one.
C19_WriteSummary ==
    call.op = "write_file" /\ ret.kind = "Saved" /\ Confined(call.path)
    => /\ ret.n1 = Len(EncodeUtf8(call.content))
       /\ ret.n1 = StSize(fs, Target(call.path))
       /\ ret.n2 = Count(call.content, "LF") + 1

\* C20: a write_file(p, c, overwrite) that succeeds on a path p inside the
\* workspace found p missing, or a regular file with overwrite=True; it
\* leaves every missing segment on the way to p a directory, at p a file
\* that holds exactly c in UTF-8, nothing of what it held before, and every
\* other file and directory as it was.
C20_WriteEffect ==
    [][call'.op = "write_file" /\ ret'.kind = "Saved" /\ Confined(call'.path)
          => LET t == Target(call'.path)
             IN  /\ t \notin DOMAIN fs \/ (fs[t].kind = "file" /\ call'.overwrite)
                 /\ DOMAIN fs' = DOMAIN fs \cup Prefixes(t)
                 /\ \A q \in Prefixes(t) \ {t} : fs'[q].kind = "dir"
                 /\ fs'[t].kind = "file"
                 /\ fs'[t].data = EncodeUtf8(call'.content)
                 /\ \A q \in DOMAIN fs \ {t} : fs'[q] = fs[q]]_vars

\* "a/n.t", which held eight bytes, has been overwritten with one
C20_Witness ==
    /\ call.op = "write_file" /\ ret.kind = "Saved" /\ call.overwrite /\ nmut = 1
    /\ call.path = Rel(<<NameA, NameN>>) /\ call.content = TextH
    /\ <<NameW, NameM>> \in DOMAIN fs /\ fs[<<NameW, NameM>>] = File(<<"a">>)
    /\ fs[<<NameW, NameA, NameN>>].data = <<"h">>

\* C21: get_file_info on a path inside the workspace answers not-found if
\* nothing is there; for a directory it reports how many directories and how
\* many files are directly in it, nothing deeper counted; for a file it
\* reports its size in bytes.
C21_FileInfo ==
    call.op = "get_file_info" /\ Confined(call.path)
    => LET t == Target(call.path)
           direct(k) == {q \in DOMAIN fs : /\ Len(q) = Len(t) + 1 /\ IsUnder(q, t)
                                            /\ fs[q].kind = k}
       IN  /\ t \notin DOMAIN fs => ret.kind = "NotFound"
           /\ t \in DOMAIN fs /\ fs[t].kind = "dir"
              => /\ ret.kind = "DirInfo"
                 /\ ret.n1 = Cardinality(direct("dir"))
                 /\ ret.n2 = Cardinality(direct("file"))
           /\ t \in DOMAIN fs /\ fs[t].kind = "file"
              => ret.kind = "FileInfo" /\ ret.n1 = Len(fs[t].data)

\* a directory has been reported that has a file two levels down
C21_Witness ==
    /\ call.op = "get_file_info" /\ ret.kind = "DirInfo" /\ Confined(call.path)
    /\ ret.n1 >= 1 /\ ret.n2 >= 1
    /\ \E q \in DOMAIN fs : /\ IsUnder(q, Target(call.path))
                             /\ Len(q) = Len(Target(call.path)) + 2
                             /\ fs[q].kind = "file"

\* the one unit the claim gives a size
Bucket(n) ==
    CASE n < 1024 -> "B"
      [] 1024 =< n /\ n < 1024 * 1024 -> "KB"
      [] n >= 1024 * 1024 -> "MB"

\* C22: list_files shows a size of s bytes in B when s < 1024, in KB when
\* 1024 <= s < 1024 * 1024 and in MB from 1024 * 1024 on; 1023, 1024, 1048575
\* and 1048576 are shown in B, KB, KB and MB; every size has one unit.
C22_SizeBuckets ==
    /\ call.op = "size_str"
       => /\ ret.arg \in {"B", "KB", "MB"}
          /\ ret.arg = Bucket(call.size)
          /\ call.size = 1023 => ret.arg = "B"
          /\ call.size = 1024 => ret.arg = "KB"
          /\ call.size = 1048575 => ret.arg = "KB"
          /\ call.size = 1048576 => ret.arg = "MB"
    /\ call.op = "list_files" /\ ret.kind = "Listing"
       => \A i \in 1..Len(ret.entries) :
             ~ret.entries[i].isdir
             => /\ ret.entries[i].size = Len(fs[Root \o ret.entries[i].rel].data)
                /\ ret.entries[i].unit = Bucket(ret.entries[i].size)

\* a file of exactly 1024 bytes has been listed
C22_Witness ==
    /\ call.op = "list_files" /\ ret.kind = "Listing"
    /\ \E i \in 1..Len(ret.entries) :
          ret.entries[i].size = 1024 /\ ret.entries[i].unit = "KB"

\* C23: of two write_file calls with overwrite=False on the same path inside
\* the workspace, served at the same time, their steps interleaved in any
\* way, at most one returns the summary, and once both have returned the
\* file holds what the first call to complete its write has written.
C23_NoOverwriteConcurrent ==
    /\ threads # <<>>
    /\ \A t \in DOMAIN threads : ~threads[t].overwrite
    /\ threads[1].path = threads[2].path /\ Confined(threads[1].path)
    => /\ Cardinality({t \in DOMAIN threads : threads[t].ret.kind = "Saved"}) =< 1
       /\ (finished # <<>> /\ \A t \in DOMAIN threads : threads[t].pc = "done")
          => fs[Target(threads[1].path)].data = EncodeUtf8(threads[finished[1]].content)

\* where the entry with relative path rel really is, symbolic links followed
Canonical(rel) == Stat(fs, Root \o rel)

\* C24: search_files returns no line, and list_files no size, of a file whose
\* location, symbolic links followed, is outside the workspace root, also
\* when a link inside the workspace points to the file or to a directory
\* above it.
C24_LinksConfined ==
    /\ call.op = "search_files" /\ ret.kind = "Hits"
       => \A i \in 1..Len(ret.entries) :
             /\ Canonical(ret.entries[i].rel).err = ""
             /\ IsUnder(Canonical(ret.entries[i].rel).path, Root)
    /\ call.op = "list_files" /\ ret.kind = "Listing"
       => \A i \in 1..Len(ret.entries) :
             ~ret.entries[i].isdir
             => /\ Canonical(ret.entries[i].rel).err = ""
                /\ IsUnder(Canonical(ret.entries[i].rel).path, Root)

====
